---------------------------- MODULE Spec2Model ----------------------------
(***************************************************************************)
(* The block resync engine of src/src/block/resync.rs: the durable resync  *)
(* queue and error tree, the in-memory busy set, and the iteration         *)
(* (resync_iter) run by each resync worker, at the granularity of the      *)
(* code's suspension points (every tree operation and resync_block).       *)
(***************************************************************************)
EXTENDS Integers, Sequences, FiniteSets, TLC

(***************************************************************************)
(* Bounds of the model.                                                    *)
(***************************************************************************)
\* workers that run resync_iter concurrently
NumWorkers == 2
\* distinct block hashes
NumBlocks == 1
\* the wall clock is read at the instants c * (RESYNC_RETRY_DELAY_MS + 1),
\* c in 0..MaxClock: a failure recorded at one instant is due for its first
\* retry exactly at the next
MaxClock == 1
\* producers call put_to_resync with a delay in 0..MaxDelay
MaxDelay == 0
\* producers stop enqueueing when the queue holds MaxQueue entries
MaxQueue == 2
\* the replication targets this node and MaxPeers peers
MaxPeers == 2
\* a block hash is HashLen bytes long (32 in the program; the code reads a
\* hash as a whole)
HashLen == 2
\* concurrent callers of set_n_workers / set_tranquility
NumUpdaters == 2
\* the error tree starts with a counter of 1..MaxErrors errors
MaxErrors == 8
\* set_tranquility is called with 0..MaxTranquility
MaxTranquility == 0
\* the worker pool is followed for MaxTime periods of IDLE_POLL_MS
MaxTime == 3
\* the due times and the hash bytes given to put_to_resync_at are built from
\* the byte values 0..MaxKeyByte
MaxKeyByte == 2

(***************************************************************************)
(* Program constants.                                                      *)
(***************************************************************************)
RESYNC_RETRY_DELAY_MS == 60000
RESYNC_RETRY_DELAY_MAX_BACKOFF_POWER == 6
IDLE_POLL_MS == 10000
TIME_LEN == 8
MAX_RESYNC_WORKERS == 4
INITIAL_RESYNC_TRANQUILITY == 2
INITIAL_NEXT_DELAY_MS == 10000

Workers == 1..NumWorkers

Min(a, b) == IF a < b THEN a ELSE b

(***************************************************************************)
(* Byte strings: u64::to_be_bytes / u64::from_be_bytes, and the byte-      *)
(* lexicographic order of the trees' keys.                                 *)
(***************************************************************************)
RECURSIVE BeBytes(_, _)
BeBytes(n, k) ==
    IF k = 0 THEN <<>> ELSE Append(BeBytes(n \div 256, k - 1), n % 256)

\* the bytes in little-endian order
to_le_bytes(n) ==
    [i \in 1..TIME_LEN |-> BeBytes(n, TIME_LEN)[TIME_LEN + 1 - i]]

to_be_bytes(n) == BeBytes(n, TIME_LEN)

RECURSIVE from_be_bytes(_)
from_be_bytes(b) ==
    IF b = <<>> THEN 0
    ELSE from_be_bytes(SubSeq(b, 1, Len(b) - 1)) * 256 + b[Len(b)]

RECURSIVE BytesLess(_, _)
BytesLess(a, b) ==
    IF a = <<>> THEN b # <<>>
    ELSE IF b = <<>> THEN FALSE
    ELSE IF a[1] # b[1] THEN a[1] < b[1]
    ELSE BytesLess(Tail(a), Tail(b))

\* the block hashes of the model
Hash(i) == [j \in 1..HashLen |-> IF j = HashLen THEN i ELSE 0]
Hashes == {Hash(i) : i \in 1..NumBlocks}

\* the key of resync.queue: concat(timestamp (8 bytes), hash)
QueueKey(when, hash) == to_be_bytes(when) \o hash

\* time_msec of a claimed key: u64::from_be_bytes(time_bytes[0..8])
KeyTime(key) == from_be_bytes(SubSeq(key, 1, TIME_LEN))

(***************************************************************************)
(* ErrorCounter.                                                           *)
(***************************************************************************)
\* a counter that starts at 0 errors
ErrorCounterNew_zero(t) == [errors |-> 0, last_try |-> t]

ErrorCounterNew(t) == [errors |-> 1, last_try |-> t]

add1(ec, t) == [errors |-> ec.errors + 1, last_try |-> t]

encode(ec) == to_be_bytes(ec.errors) \o to_be_bytes(ec.last_try)

decode(data) ==
    [errors |-> from_be_bytes(SubSeq(data, 1, 8)),
     last_try |-> from_be_bytes(SubSeq(data, 9, 16))]

\* the shift without the saturation of its exponent
delay_msec_unsaturated(ec) ==
    RESYNC_RETRY_DELAY_MS * 2 ^ (IF ec.errors >= 1 THEN ec.errors - 1 ELSE 0)

\* self.errors - 1 on u64: a stored counter of 0 errors wraps (release
\* build), and min() then saturates at the maximal power
delay_msec(ec) ==
    RESYNC_RETRY_DELAY_MS
        * 2 ^ (IF ec.errors >= 1
               THEN Min(ec.errors - 1, RESYNC_RETRY_DELAY_MAX_BACKOFF_POWER)
               ELSE RESYNC_RETRY_DELAY_MAX_BACKOFF_POWER)

next_try(ec) == ec.last_try + delay_msec(ec)

(***************************************************************************)
(* The ordered trees (resync.queue, resync.errors): functions from keys to *)
(* values.                                                                 *)
(***************************************************************************)
TreeInsert(t, k, v) ==
    [x \in DOMAIN t \cup {k} |-> IF x = k THEN v ELSE t[x]]

TreeRemove(t, k) == [x \in DOMAIN t \ {k} |-> t[x]]

EmptyTree == [x \in {} |-> <<>>]

\* the first key of the tree, in iteration order, among the keys in S
FirstKey(S) == CHOOSE k \in S : \A k2 \in S \ {k} : BytesLess(k, k2)

(***************************************************************************)
(* State.                                                                  *)
(***************************************************************************)
VARIABLES
    queue,        \* resync.queue: QueueKey -> hash
    errors,       \* resync.errors: hash -> encoded ErrorCounter
    busy_set,     \* BusySet: the keys claimed by in-flight iterations
    clock,        \* the wall clock read by now_msec()
    pc,           \* per worker: its position in resync_iter
    block,        \* per worker: the BusyBlock it holds
    now,          \* per worker: the `now` local of resync_iter
    err_counter,  \* per worker: the `ec` / `err_counter` local
    res,          \* per worker: the result of resync_block
    result,       \* per worker: the value resync_iter returns
    rb,           \* per worker: the locals of resync_block
    calls,        \* per worker: the calls resync_block has made to the block
                  \* store, the refcount table, the RPC layer and the metrics
    persisted,    \* resync.persisted: the published configuration snapshot
    persister,    \* the configuration file written by resync.persister
    updater,      \* per caller of set_n_workers / set_tranquility: its call,
                  \* its position in update_persisted, its `cfg` local
    worker,       \* per ResyncWorker: its position in the work /
                  \* wait_for_work cycle, next_delay, its sleep and Notified
    args          \* the arguments given to the pure functions

\* the state of the worker pool and of the configuration
pool_vars == <<persisted, persister, updater, worker, args>>

vars == <<queue, errors, busy_set, clock, pc, block, now, err_counter, res,
          result, rb, calls, persisted, persister, updater, worker, args>>

NoBlock == [time_bytes |-> <<>>, hash_bytes |-> <<>>]
NoCounter == [errors |-> 0, last_try |-> 0]
NoResult == <<"None", 0>>
\* resync_block's locals: the block status, the write set and the write quorum
\* of the replication, the peers asked, their replies, the peers that need
\* the block, the peers that acknowledged PutBlock, the bytes fetched
NoLocals ==
    [exists |-> FALSE, is_nonzero |-> FALSE, is_deletable |-> FALSE,
     write_nodes |-> {}, write_quorum |-> 0, who |-> {},
     replies |-> [n \in {} |-> "none"], need_nodes |-> {}, acks |-> {},
     block_data |-> 0]

ClockValues == {c * (RESYNC_RETRY_DELAY_MS + 1) : c \in 0..MaxClock}

\* ResyncWorker::new(index, ..): the workers are numbered from 0
Index(w) == w - 1
\* the configuration BlockResyncManager::new falls back to when
\* persister.load() fails
DefaultConfig ==
    [n_workers |-> 1, tranquility |-> INITIAL_RESYNC_TRANQUILITY]
\* the configuration file: absent (<< >>) or holding one configuration
NoFile == << >>
\* persister.load() in BlockResyncManager::new
Load(file) == IF file = NoFile THEN DefaultConfig ELSE file[1]
Updaters == 1..NumUpdaters
\* a caller that is not inside set_n_workers / set_tranquility
NoCall ==
    [pc |-> "idle", op |-> "none", arg |-> 0, cfg |-> DefaultConfig,
     ret |-> "none"]
\* no enqueue has gone unnoticed
NoTime == -1
\* ResyncWorker::new: next_delay is 10 seconds; the worker manager calls
\* work() first
NewWorker ==
    [st |-> "work", next_delay |-> INITIAL_NEXT_DELAY_MS, wake_at |-> 0,
     notified |-> FALSE, missed |-> NoTime]
NoArgs == << >>
\* notify.notify_waiters(): every Notified future that exists is completed,
\* those of the workers parked in wait_for_work; a worker that has not yet
\* created its future is not woken.  An active worker that has been told to
\* idle and is not yet waiting misses the notification: `missed` keeps the
\* time of the first enqueue it missed since its last iteration.
Parked(wk) == wk.st \in {"notified", "select"}
NotifyWaiters(workers) ==
    [w \in DOMAIN workers |->
        IF Parked(workers[w])
        THEN [workers[w] EXCEPT !.notified = TRUE]
        ELSE workers[w]]
NotifyEnqueue(workers, n_workers, t) ==
    [w \in DOMAIN workers |->
        IF Parked(workers[w])
        THEN [workers[w] EXCEPT !.notified = TRUE]
        ELSE IF /\ workers[w].st \in {"wait_for_work", "select_new"}
                /\ Index(w) < n_workers
                /\ workers[w].missed = NoTime
             THEN [workers[w] EXCEPT !.missed = t]
             ELSE workers[w]]
\* BlockResyncManager::new and ResyncWorker::new, with no configuration file
PoolInit ==
    /\ persister = NoFile
    /\ persisted = Load(persister)
    /\ updater = [u \in Updaters |-> NoCall]
    /\ worker = [w \in Workers |-> NewWorker]

\* the ways resync_block returns: Ok(()), or an Err from one of its calls

Init ==
    /\ queue = EmptyTree
    /\ errors = EmptyTree
    /\ busy_set = {}
    /\ clock = 0
    /\ pc = [w \in Workers |-> "work"]
    /\ block = [w \in Workers |-> NoBlock]
    /\ now = [w \in Workers |-> 0]
    /\ err_counter = [w \in Workers |-> NoCounter]
    /\ res = [w \in Workers |-> "None"]
    /\ result = [w \in Workers |-> NoResult]
    /\ rb = [w \in Workers |-> NoLocals]
    /\ calls = [w \in Workers |-> <<>>]
    /\ PoolInit
    /\ args = NoArgs


(***************************************************************************)
(* put_to_resync_at: the insert into resync.queue.  Its notify_waiters()   *)
(* wakes the workers parked in wait_for_work; a worker inside resync_iter  *)
(* is not waiting and is not affected.                                     *)
(***************************************************************************)
put_to_resync_at(q, hash, when) == TreeInsert(q, QueueKey(when, hash), hash)

\* resync_iter returns `r` (Ok(..) or a db::Error); the BusyBlock is still held
Finish(w, r) ==
    /\ pc' = [pc EXCEPT ![w] = "ret"]
    /\ result' = [result EXCEPT ![w] = r]

DbError == <<"Err", 0>>
DidWork == <<"BusyDidSomething", 0>>
Skipped == <<"BusyDidNothing", 0>>
IdleFor(d) == <<"IdleFor", d>>

(***************************************************************************)
(* Producers: put_to_resync(hash, delay).                                  *)
(***************************************************************************)
put_to_resync(hash, delay) ==
    /\ Cardinality(DOMAIN queue) < MaxQueue
    /\ queue' = put_to_resync_at(queue, hash, clock + delay)
    /\ worker' = NotifyEnqueue(worker, persisted.n_workers, clock)
    /\ UNCHANGED <<persisted, persister, updater, args>>
    /\ UNCHANGED <<errors, busy_set, clock, pc, block, now, err_counter, res,
                   result, rb, calls>>

(***************************************************************************)
(* The wall clock: not monotonic.                                          *)
(***************************************************************************)
Tick ==
    /\ \E t \in ClockValues \ {clock} : clock' = t
    /\ UNCHANGED pool_vars
    /\ UNCHANGED <<queue, errors, busy_set, pc, block, now, err_counter, res,
                   result, rb, calls>>

(***************************************************************************)
(* resync_iter, step by step.                                              *)
(***************************************************************************)
\* get_block_to_resync without the test of the busy set
get_block_to_resync_ignoring_busy(w) ==
    /\ pc[w] = "work"
    /\ \/ /\ DOMAIN queue # {}
          /\ LET k == FirstKey(DOMAIN queue) IN
             /\ busy_set' = busy_set \cup {k}
             /\ block' = [block EXCEPT
                            ![w] = [time_bytes |-> k, hash_bytes |-> queue[k]]]
          /\ pc' = [pc EXCEPT ![w] = "claimed"]
          /\ UNCHANGED result
       \/ /\ DOMAIN queue = {}
          /\ Finish(w, IdleFor(IDLE_POLL_MS))
          /\ UNCHANGED <<busy_set, block>>
    /\ UNCHANGED pool_vars
    /\ UNCHANGED <<queue, errors, clock, now, err_counter, res, rb, calls>>

\* get_block_to_resync that claims the last key that is not busy
get_block_to_resync_last(w) ==
    /\ pc[w] = "work"
    /\ LET free == {k \in DOMAIN queue : k \notin busy_set} IN
       \/ /\ free # {}
          /\ LET k == CHOOSE k1 \in free :
                         \A k2 \in free \ {k1} : BytesLess(k2, k1) IN
             /\ busy_set' = busy_set \cup {k}
             /\ block' = [block EXCEPT
                            ![w] = [time_bytes |-> k, hash_bytes |-> queue[k]]]
          /\ pc' = [pc EXCEPT ![w] = "claimed"]
          /\ UNCHANGED result
       \/ /\ free = {}
          /\ Finish(w, IdleFor(IDLE_POLL_MS))
          /\ UNCHANGED <<busy_set, block>>
       \/ /\ Finish(w, DbError)
          /\ UNCHANGED <<busy_set, block>>
    /\ UNCHANGED pool_vars
    /\ UNCHANGED <<queue, errors, clock, now, err_counter, res, rb, calls>>

\* get_block_to_resync: under the busy_set lock, claim the first key of the
\* queue that is not busy
get_block_to_resync(w) ==
    /\ pc[w] = "work"
    /\ LET free == {k \in DOMAIN queue : k \notin busy_set} IN
       \/ /\ free # {}
          /\ LET k == FirstKey(free) IN
             /\ busy_set' = busy_set \cup {k}
             /\ block' = [block EXCEPT
                            ![w] = [time_bytes |-> k, hash_bytes |-> queue[k]]]
          /\ pc' = [pc EXCEPT ![w] = "claimed"]
          /\ UNCHANGED result
       \/ /\ free = {}
          /\ Finish(w, IdleFor(IDLE_POLL_MS))
          /\ UNCHANGED <<busy_set, block>>
       \/ \* self.queue.iter()? or it? fails
          /\ Finish(w, DbError)
          /\ UNCHANGED <<busy_set, block>>
    /\ UNCHANGED pool_vars
    /\ UNCHANGED <<queue, errors, clock, now, err_counter, res, rb, calls>>

\* an entry that is not due is removed from the queue
check_due_removing(w) ==
    /\ pc[w] = "claimed"
    /\ now' = [now EXCEPT ![w] = clock]
    /\ IF clock >= KeyTime(block[w].time_bytes)
       THEN /\ pc' = [pc EXCEPT ![w] = "errors_get"]
            /\ UNCHANGED <<result, queue>>
       ELSE /\ Finish(w, IdleFor(KeyTime(block[w].time_bytes) - clock))
            /\ queue' = TreeRemove(queue, block[w].time_bytes)
    /\ UNCHANGED pool_vars
    /\ UNCHANGED <<errors, busy_set, clock, block, err_counter, res, rb, calls>>

\* let now = now_msec(); if now >= time_msec { .. } else { IdleFor(..) }
check_due(w) ==
    /\ pc[w] = "claimed"
    /\ now' = [now EXCEPT ![w] = clock]
    /\ IF clock >= KeyTime(block[w].time_bytes)
       THEN /\ pc' = [pc EXCEPT ![w] = "errors_get"]
            /\ UNCHANGED result
       ELSE Finish(w, IdleFor(KeyTime(block[w].time_bytes) - clock))
    /\ UNCHANGED pool_vars
    /\ UNCHANGED <<queue, errors, busy_set, clock, block, err_counter, res, rb, calls>>

\* errors.get without the back-off test: the block is always resynced
errors_get_no_backoff(w) ==
    /\ pc[w] = "errors_get"
    /\ \/ /\ pc' = [pc EXCEPT ![w] = "resync_block"]
          /\ UNCHANGED <<err_counter, result>>
       \/ /\ Finish(w, DbError)
          /\ UNCHANGED err_counter
    /\ UNCHANGED pool_vars
    /\ UNCHANGED <<queue, errors, busy_set, clock, block, now, res, rb, calls>>

\* self.errors.get(hash)?, and the back-off test now < ec.next_try()
errors_get(w) ==
    /\ pc[w] = "errors_get"
    /\ LET hash == block[w].hash_bytes IN
       \/ /\ hash \in DOMAIN errors
          /\ now[w] < next_try(decode(errors[hash]))
          /\ err_counter' = [err_counter EXCEPT ![w] = decode(errors[hash])]
          /\ pc' = [pc EXCEPT ![w] = "skip_put"]
          /\ UNCHANGED result
       \/ /\ ~(/\ hash \in DOMAIN errors
               /\ now[w] < next_try(decode(errors[hash])))
          /\ pc' = [pc EXCEPT ![w] = "resync_block"]
          /\ UNCHANGED <<err_counter, result>>
       \/ /\ Finish(w, DbError)
          /\ UNCHANGED err_counter
    /\ UNCHANGED pool_vars
    /\ UNCHANGED <<queue, errors, busy_set, clock, block, now, res, rb, calls>>

\* back-off skip: self.put_to_resync_at(&hash, ec.next_try())?
skip_put(w) ==
    /\ pc[w] = "skip_put"
    /\ \/ /\ queue' = put_to_resync_at(queue, block[w].hash_bytes,
                                       next_try(err_counter[w]))
          /\ pc' = [pc EXCEPT ![w] = "skip_remove"]
          /\ UNCHANGED result
       \/ /\ Finish(w, DbError)
          /\ UNCHANGED queue
    /\ UNCHANGED pool_vars
    /\ UNCHANGED <<errors, busy_set, clock, block, now, err_counter, res, rb, calls>>

\* back-off skip: self.queue.remove(&block.time_bytes)?; BusyDidNothing
skip_remove(w) ==
    /\ pc[w] = "skip_remove"
    /\ \/ /\ queue' = TreeRemove(queue, block[w].time_bytes)
          /\ Finish(w, Skipped)
       \/ /\ Finish(w, DbError)
          /\ UNCHANGED queue
    /\ UNCHANGED pool_vars
    /\ UNCHANGED <<errors, busy_set, clock, block, now, err_counter, res, rb, calls>>

(***************************************************************************)
(* resync_block.  `ResyncReturn` is its return; `resync_block_any` is the  *)
(* whole call as the iteration sees it (it returns Ok or Err, after any    *)
(* delay); the steps that follow are the call in full, one per await.      *)
(***************************************************************************)
\* the Err values resync_block returns, by the call that failed
ResyncErrors ==
    {"check_block_status", "no_quorum", "call_many", "NeedBlockQuery RPC",
     "unexpected_rpc_message", "read_block", "Req::new", "PutBlock RPC",
     "delete_if_unneeded", "clear_deleted_block_rc", "rpc_get_raw_block",
     "write_block"}

IsErr(r) == r \notin {"Ok", "None"}

ResyncReturn(w, r) ==
    /\ res' = [res EXCEPT ![w] = r]
    /\ pc' = [pc EXCEPT ![w] = "resynced"]

\* let res = self.resync_block(manager, &hash).await
resync_block_any(w) ==
    /\ pc[w] = "resync_block"
    /\ \E r \in {"Ok", "Err"} : ResyncReturn(w, r)
    /\ UNCHANGED pool_vars
    /\ UNCHANGED <<queue, errors, busy_set, clock, block, now, err_counter,
                   result, rb, calls>>

\* the peers of the replication: node 0 is this node (manager.system.id)
Nodes == 0..MaxPeers
Self == 0
ReplyKinds == {"NeedBlockReply(true)", "NeedBlockReply(false)", "Err", "other"}
BlockBytes == {171, 205}

Call(name, nodes, data) == [call |-> name, nodes |-> nodes, data |-> data]
Log(w, entries) == calls' = [calls EXCEPT ![w] = calls[w] \o entries]

\* let BlockStatus { exists, needed } = manager.check_block_status(hash).await?
check_block_status(w) ==
    /\ pc[w] = "resync_block"
    /\ \/ /\ \E e \in BOOLEAN, nz \in BOOLEAN, d \in BOOLEAN :
               rb' = [rb EXCEPT ![w].exists = e, ![w].is_nonzero = nz,
                                ![w].is_deletable = d]
          /\ pc' = [pc EXCEPT ![w] = "rb_offload"]
          /\ UNCHANGED res
       \/ /\ ResyncReturn(w, "check_block_status")
          /\ UNCHANGED rb
    /\ UNCHANGED pool_vars
    /\ UNCHANGED <<queue, errors, busy_set, clock, block, now, err_counter,
                   result, calls>>

\* the offload guard without the test of is_deletable
offload_query_any_existing(w) ==
    /\ pc[w] = "rb_offload"
    /\ IF rb[w].exists
       THEN \E W \in SUBSET Nodes, q \in 1..(MaxPeers + 1) :
              IF Cardinality(W) < q
              THEN /\ ResyncReturn(w, "no_quorum")
                   /\ rb' = [rb EXCEPT ![w].write_nodes = W,
                                       ![w].write_quorum = q]
                   /\ UNCHANGED calls
              ELSE /\ rb' = [rb EXCEPT ![w].write_nodes = W,
                                       ![w].write_quorum = q,
                                       ![w].who = W \ {Self}]
                   /\ Log(w, <<Call("NeedBlockQuery", W \ {Self}, 0)>>)
                   /\ pc' = [pc EXCEPT ![w] = "rb_who_needs"]
                   /\ UNCHANGED res
       ELSE /\ pc' = [pc EXCEPT ![w] = "rb_fetch"]
            /\ UNCHANGED <<res, rb, calls>>
    /\ UNCHANGED pool_vars
    /\ UNCHANGED <<queue, errors, busy_set, clock, block, now, err_counter,
                   result>>

\* if exists && needed.is_deletable(): write_nodes, the quorum test,
\* who.retain(..) and the NeedBlockQuery sent with call_many
offload_query(w) ==
    /\ pc[w] = "rb_offload"
    /\ IF rb[w].exists /\ rb[w].is_deletable
       THEN \E W \in SUBSET Nodes, q \in 1..(MaxPeers + 1) :
              IF Cardinality(W) < q
              THEN /\ ResyncReturn(w, "no_quorum")
                   /\ rb' = [rb EXCEPT ![w].write_nodes = W,
                                       ![w].write_quorum = q]
                   /\ UNCHANGED calls
              ELSE /\ rb' = [rb EXCEPT ![w].write_nodes = W,
                                       ![w].write_quorum = q,
                                       ![w].who = W \ {Self}]
                   /\ Log(w, <<Call("NeedBlockQuery", W \ {Self}, 0)>>)
                   /\ pc' = [pc EXCEPT ![w] = "rb_who_needs"]
                   /\ UNCHANGED res
       ELSE /\ pc' = [pc EXCEPT ![w] = "rb_fetch"]
            /\ UNCHANGED <<res, rb, calls>>
    /\ UNCHANGED pool_vars
    /\ UNCHANGED <<queue, errors, busy_set, clock, block, now, err_counter,
                   result>>

\* the replies in the order of `who`: the first that is an error or is not a
\* NeedBlockReply ends resync_block
FirstBad(replies) ==
    LET bad == {n \in DOMAIN replies : replies[n] \in {"Err", "other"}}
    IN  CHOOSE n \in bad : \A m \in bad : n <= m

need_nodes(replies) ==
    {n \in DOMAIN replies : replies[n] = "NeedBlockReply(true)"}

\* call_many(..).await? and the loop over who_needs_resps; when some peer
\* needs the block, read_block is called
who_needs_resps(w) ==
    /\ pc[w] = "rb_who_needs"
    /\ \/ /\ ResyncReturn(w, "call_many")
          /\ UNCHANGED <<rb, calls>>
       \/ \E replies \in [rb[w].who -> ReplyKinds] :
            /\ rb' = [rb EXCEPT ![w].replies = replies,
                        ![w].need_nodes =
                            IF \E n \in DOMAIN replies :
                                   replies[n] \in {"Err", "other"}
                            THEN {} ELSE need_nodes(replies)]
            /\ IF \E n \in DOMAIN replies : replies[n] \in {"Err", "other"}
               THEN /\ ResyncReturn(w,
                         IF replies[FirstBad(replies)] = "Err"
                         THEN "NeedBlockQuery RPC"
                         ELSE "unexpected_rpc_message")
                    /\ UNCHANGED calls
               ELSE IF need_nodes(replies) # {}
               THEN /\ Log(w, <<Call("read_block", {}, 0)>>)
                    /\ pc' = [pc EXCEPT ![w] = "rb_read_block"]
                    /\ UNCHANGED res
               ELSE /\ Log(w, <<Call("delete_if_unneeded", {}, 0)>>)
                    /\ pc' = [pc EXCEPT ![w] = "rb_delete"]
                    /\ UNCHANGED res
    /\ UNCHANGED pool_vars
    /\ UNCHANGED <<queue, errors, busy_set, clock, block, now, err_counter,
                   result>>

\* read_block(hash).await?, Req::new(..)?, and the PutBlock sent with
\* try_call_many to need_nodes
read_block(w) ==
    /\ pc[w] = "rb_read_block"
    /\ \/ /\ ResyncReturn(w, "read_block")
          /\ UNCHANGED calls
       \/ /\ ResyncReturn(w, "Req::new")
          /\ UNCHANGED calls
       \/ /\ Log(w, <<Call("PutBlock", rb[w].need_nodes, 0)>>)
          /\ pc' = [pc EXCEPT ![w] = "rb_put_block"]
          /\ UNCHANGED res
    /\ UNCHANGED pool_vars
    /\ UNCHANGED <<queue, errors, busy_set, clock, block, now, err_counter,
                   result, rb>>

\* try_call_many with a quorum: Ok when at least `quorum` of the peers
\* called have acknowledged
try_call_many(acks, quorum) == Cardinality(acks) >= quorum

\* PutBlock sent with a quorum of one peer instead of need_nodes.len()
put_block_quorum_one(w) ==
    /\ pc[w] = "rb_put_block"
    /\ \E acks \in SUBSET rb[w].need_nodes :
         /\ rb' = [rb EXCEPT ![w].acks = acks]
         /\ IF try_call_many(acks, 1)
            THEN /\ Log(w, <<Call("delete_if_unneeded", {}, 0)>>)
                 /\ pc' = [pc EXCEPT ![w] = "rb_delete"]
                 /\ UNCHANGED res
            ELSE /\ ResyncReturn(w, "PutBlock RPC")
                 /\ UNCHANGED calls
    /\ UNCHANGED pool_vars
    /\ UNCHANGED <<queue, errors, busy_set, clock, block, now, err_counter,
                   result>>

\* try_call_many(.. with_quorum(need_nodes.len())).await.err_context(..)?
put_block(w) ==
    /\ pc[w] = "rb_put_block"
    /\ \E acks \in SUBSET rb[w].need_nodes :
         /\ rb' = [rb EXCEPT ![w].acks = acks]
         /\ IF try_call_many(acks, Cardinality(rb[w].need_nodes))
            THEN /\ Log(w, <<Call("delete_if_unneeded", {}, 0)>>)
                 /\ pc' = [pc EXCEPT ![w] = "rb_delete"]
                 /\ UNCHANGED res
            ELSE /\ ResyncReturn(w, "PutBlock RPC")
                 /\ UNCHANGED calls
    /\ UNCHANGED pool_vars
    /\ UNCHANGED <<queue, errors, busy_set, clock, block, now, err_counter,
                   result>>

\* manager.delete_if_unneeded(hash).await?;
\* manager.rc.clear_deleted_block_rc(hash)?
delete_if_unneeded(w) ==
    /\ pc[w] = "rb_delete"
    /\ \/ /\ ResyncReturn(w, "delete_if_unneeded")
          /\ UNCHANGED calls
       \/ /\ Log(w, <<Call("clear_deleted_block_rc", {}, 0)>>)
          /\ ResyncReturn(w, "clear_deleted_block_rc")
       \/ /\ Log(w, <<Call("clear_deleted_block_rc", {}, 0)>>)
          /\ pc' = [pc EXCEPT ![w] = "rb_fetch"]
          /\ UNCHANGED res
    /\ UNCHANGED pool_vars
    /\ UNCHANGED <<queue, errors, busy_set, clock, block, now, err_counter,
                   result, rb>>

\* the fetch guard with `exists` taken after the delete: the local copy is
\* gone once delete_if_unneeded has been called
fetch_guard_after_delete(w) ==
    /\ pc[w] = "rb_fetch"
    /\ IF /\ rb[w].is_nonzero
          /\ \/ ~rb[w].exists
             \/ \E i \in DOMAIN calls[w] :
                    calls[w][i].call = "delete_if_unneeded"
       THEN /\ Log(w, <<Call("rpc_get_raw_block", {}, 0)>>)
            /\ pc' = [pc EXCEPT ![w] = "rb_get_raw_block"]
            /\ UNCHANGED res
       ELSE /\ ResyncReturn(w, "Ok")
            /\ UNCHANGED calls
    /\ UNCHANGED pool_vars
    /\ UNCHANGED <<queue, errors, busy_set, clock, block, now, err_counter,
                   result, rb>>

\* if needed.is_nonzero() && !exists: rpc_get_raw_block(hash, None).await?
fetch_guard(w) ==
    /\ pc[w] = "rb_fetch"
    /\ IF rb[w].is_nonzero /\ ~rb[w].exists
       THEN /\ Log(w, <<Call("rpc_get_raw_block", {}, 0)>>)
            /\ pc' = [pc EXCEPT ![w] = "rb_get_raw_block"]
            /\ UNCHANGED res
       ELSE /\ ResyncReturn(w, "Ok")
            /\ UNCHANGED calls
    /\ UNCHANGED pool_vars
    /\ UNCHANGED <<queue, errors, busy_set, clock, block, now, err_counter,
                   result, rb>>

\* the block arrives (or not); resync_recv_counter.add(1); write_block is
\* called with the bytes received
rpc_get_raw_block(w) ==
    /\ pc[w] = "rb_get_raw_block"
    /\ \/ /\ ResyncReturn(w, "rpc_get_raw_block")
          /\ UNCHANGED <<rb, calls>>
       \/ \E data \in BlockBytes :
            /\ rb' = [rb EXCEPT ![w].block_data = data]
            /\ Log(w, <<Call("resync_recv_counter.add", {}, 1),
                        Call("write_block", {}, data)>>)
            /\ pc' = [pc EXCEPT ![w] = "rb_write_block"]
            /\ UNCHANGED res
    /\ UNCHANGED pool_vars
    /\ UNCHANGED <<queue, errors, busy_set, clock, block, now, err_counter,
                   result>>

\* manager.write_block(hash, &block_data).await?; Ok(())
write_block(w) ==
    /\ pc[w] = "rb_write_block"
    /\ \/ ResyncReturn(w, "write_block")
       \/ ResyncReturn(w, "Ok")
    /\ UNCHANGED pool_vars
    /\ UNCHANGED <<queue, errors, busy_set, clock, block, now, err_counter,
                   result, rb, calls>>

resync_block(w) ==
    \/ check_block_status(w)
    \/ offload_query(w)
    \/ who_needs_resps(w)
    \/ read_block(w)
    \/ put_block(w)
    \/ delete_if_unneeded(w)
    \/ fetch_guard(w)
    \/ rpc_get_raw_block(w)
    \/ write_block(w)

\* the failure path reading the clock again for last_try
fail_get_now_again(w) ==
    /\ pc[w] = "resynced"
    /\ IsErr(res[w])
    /\ LET hash == block[w].hash_bytes IN
       \/ /\ err_counter' = [err_counter EXCEPT
                ![w] = IF hash \in DOMAIN errors
                       THEN add1(decode(errors[hash]), clock + 1)
                       ELSE ErrorCounterNew(clock + 1)]
          /\ pc' = [pc EXCEPT ![w] = "fail_insert"]
          /\ UNCHANGED result
       \/ /\ Finish(w, DbError)
          /\ UNCHANGED err_counter
    /\ UNCHANGED pool_vars
    /\ UNCHANGED <<queue, errors, busy_set, clock, block, now, res, rb, calls>>

\* the failure path leaving the claimed entry in the queue
fail_remove_nothing(w) ==
    /\ pc[w] = "fail_remove"
    /\ Finish(w, DidWork)
    /\ UNCHANGED pool_vars
    /\ UNCHANGED <<queue, errors, busy_set, clock, block, now, err_counter,
                   res, rb, calls>>

\* failure: the new counter, from self.errors.get(hash)? and now + 1
fail_get(w) ==
    /\ pc[w] = "resynced"
    /\ IsErr(res[w])
    /\ LET hash == block[w].hash_bytes IN
       \/ /\ err_counter' = [err_counter EXCEPT
                ![w] = IF hash \in DOMAIN errors
                       THEN add1(decode(errors[hash]), now[w] + 1)
                       ELSE ErrorCounterNew(now[w] + 1)]
          /\ pc' = [pc EXCEPT ![w] = "fail_insert"]
          /\ UNCHANGED result
       \/ /\ Finish(w, DbError)
          /\ UNCHANGED err_counter
    /\ UNCHANGED pool_vars
    /\ UNCHANGED <<queue, errors, busy_set, clock, block, now, res, rb, calls>>

\* failure: self.errors.insert(hash, err_counter.encode())?
fail_insert(w) ==
    /\ pc[w] = "fail_insert"
    /\ \/ /\ errors' = TreeInsert(errors, block[w].hash_bytes,
                                  encode(err_counter[w]))
          /\ pc' = [pc EXCEPT ![w] = "fail_put"]
          /\ UNCHANGED result
       \/ /\ Finish(w, DbError)
          /\ UNCHANGED errors
    /\ UNCHANGED pool_vars
    /\ UNCHANGED <<queue, busy_set, clock, block, now, err_counter, res, rb, calls>>

\* the failure path removing the claimed entry before it inserts the new one
fail_put_after_remove(w) ==
    /\ pc[w] = "fail_put"
    /\ queue' = TreeRemove(queue, block[w].time_bytes)
    /\ pc' = [pc EXCEPT ![w] = "fail_remove"]
    /\ UNCHANGED pool_vars
    /\ UNCHANGED <<errors, busy_set, clock, block, now, err_counter, res,
                   result, rb, calls>>

\* failure: self.put_to_resync_at(&hash, err_counter.next_try())?
fail_put(w) ==
    /\ pc[w] = "fail_put"
    /\ \/ /\ queue' = put_to_resync_at(queue, block[w].hash_bytes,
                                       next_try(err_counter[w]))
          /\ pc' = [pc EXCEPT ![w] = "fail_remove"]
          /\ UNCHANGED result
       \/ /\ Finish(w, DbError)
          /\ UNCHANGED queue
    /\ UNCHANGED pool_vars
    /\ UNCHANGED <<errors, busy_set, clock, block, now, err_counter, res, rb, calls>>

\* failure: self.queue.remove(&block.time_bytes)?; BusyDidSomething
fail_remove(w) ==
    /\ pc[w] = "fail_remove"
    /\ \/ /\ queue' = TreeRemove(queue, block[w].time_bytes)
          /\ Finish(w, DidWork)
       \/ /\ Finish(w, DbError)
          /\ UNCHANGED queue
    /\ UNCHANGED pool_vars
    /\ UNCHANGED <<errors, busy_set, clock, block, now, err_counter, res, rb, calls>>

\* the success path without the removal of the error counter
ok_errors_keep(w) ==
    /\ pc[w] = "resynced"
    /\ res[w] = "Ok"
    /\ pc' = [pc EXCEPT ![w] = "ok_remove"]
    /\ UNCHANGED pool_vars
    /\ UNCHANGED <<queue, errors, busy_set, clock, block, now, err_counter,
                   res, result, rb, calls>>

\* success: self.errors.remove(hash)?
ok_errors_remove(w) ==
    /\ pc[w] = "resynced"
    /\ res[w] = "Ok"
    /\ \/ /\ errors' = TreeRemove(errors, block[w].hash_bytes)
          /\ pc' = [pc EXCEPT ![w] = "ok_remove"]
          /\ UNCHANGED result
       \/ /\ Finish(w, DbError)
          /\ UNCHANGED errors
    /\ UNCHANGED pool_vars
    /\ UNCHANGED <<queue, busy_set, clock, block, now, err_counter, res, rb, calls>>

\* success: self.queue.remove(&block.time_bytes)?; BusyDidSomething
ok_remove(w) ==
    /\ pc[w] = "ok_remove"
    /\ \/ /\ queue' = TreeRemove(queue, block[w].time_bytes)
          /\ Finish(w, DidWork)
       \/ /\ Finish(w, DbError)
          /\ UNCHANGED queue
    /\ UNCHANGED pool_vars
    /\ UNCHANGED <<errors, busy_set, clock, block, now, err_counter, res, rb, calls>>

\* a return that leaks the BusyBlock of an iteration that ends in an error
drop_busy_block_on_ok(w) ==
    /\ pc[w] = "ret"
    /\ busy_set' = IF result[w] = DbError
                   THEN busy_set ELSE busy_set \ {block[w].time_bytes}
    /\ pc' = [pc EXCEPT ![w] = "work"]
    /\ block' = [block EXCEPT ![w] = NoBlock]
    /\ now' = [now EXCEPT ![w] = 0]
    /\ err_counter' = [err_counter EXCEPT ![w] = NoCounter]
    /\ res' = [res EXCEPT ![w] = "None"]
    /\ result' = [result EXCEPT ![w] = NoResult]
    /\ rb' = [rb EXCEPT ![w] = NoLocals]
    /\ calls' = [calls EXCEPT ![w] = <<>>]
    /\ UNCHANGED pool_vars
    /\ UNCHANGED <<queue, errors, clock>>

\* resync_iter returns: the BusyBlock, if one is held, is dropped, which
\* removes its key from the busy set
drop_busy_block(w) ==
    /\ pc[w] = "ret"
    /\ busy_set' = busy_set \ {block[w].time_bytes}
    /\ pc' = [pc EXCEPT ![w] = "work"]
    /\ block' = [block EXCEPT ![w] = NoBlock]
    /\ now' = [now EXCEPT ![w] = 0]
    /\ err_counter' = [err_counter EXCEPT ![w] = NoCounter]
    /\ res' = [res EXCEPT ![w] = "None"]
    /\ result' = [result EXCEPT ![w] = NoResult]
    /\ rb' = [rb EXCEPT ![w] = NoLocals]
    /\ calls' = [calls EXCEPT ![w] = <<>>]
    /\ UNCHANGED pool_vars
    /\ UNCHANGED <<queue, errors, clock>>

(***************************************************************************)
(* The process stops at any point and restarts (BlockResyncManager::new):  *)
(* the trees and the configuration file are durable, the busy set and the  *)
(* workers start afresh, the configuration is loaded from the file.        *)
(***************************************************************************)
Restart ==
    /\ \/ \E w \in Workers : pc[w] # "work" \/ worker[w] # NewWorker
       \/ \E u \in Updaters : updater[u] # NoCall
       \/ persisted # Load(persister)
    /\ busy_set' = {}
    /\ pc' = [w \in Workers |-> "work"]
    /\ block' = [w \in Workers |-> NoBlock]
    /\ now' = [w \in Workers |-> 0]
    /\ err_counter' = [w \in Workers |-> NoCounter]
    /\ res' = [w \in Workers |-> "None"]
    /\ result' = [w \in Workers |-> NoResult]
    /\ rb' = [w \in Workers |-> NoLocals]
    /\ calls' = [w \in Workers |-> <<>>]
    /\ persisted' = Load(persister)
    /\ updater' = [u \in Updaters |-> NoCall]
    /\ worker' = [w \in Workers |-> NewWorker]
    /\ UNCHANGED <<queue, errors, clock, persister, args>>

\* the steps of resync_iter other than the call of resync_block
resync_iter(w) ==
    \/ get_block_to_resync(w)
    \/ check_due(w)
    \/ errors_get(w)
    \/ skip_put(w)
    \/ skip_remove(w)
    \/ fail_get(w)
    \/ fail_insert(w)
    \/ fail_put(w)
    \/ fail_remove(w)
    \/ ok_errors_remove(w)
    \/ ok_remove(w)
    \/ drop_busy_block(w)

Producer == \E h \in Hashes, d \in 0..MaxDelay : put_to_resync(h, d)

(***************************************************************************)
(* Spec: NumWorkers workers iterate concurrently; resync_block is seen by  *)
(* its result.                                                             *)
(***************************************************************************)
Next ==
    \/ \E w \in Workers : resync_iter(w) \/ resync_block_any(w)
    \/ Producer
    \/ Tick
    \/ Restart

Spec == Init /\ [][Next]_vars

(***************************************************************************)
(* SpecSingle: one active worker (n_workers = 1, the default of the        *)
(* persisted configuration); resync_block runs call by call.               *)
(***************************************************************************)
NextSingle ==
    \/ resync_iter(1) \/ resync_block(1)
    \/ Producer
    \/ Tick
    \/ Restart

SpecSingle == Init /\ [][NextSingle]_vars

(***************************************************************************)
(* The configuration: set_n_workers, set_tranquility and update_persisted, *)
(* at the granularity of update_persisted's suspension point (the save)    *)
(* and of its accesses to shared state (load, store, notify_waiters).      *)
(***************************************************************************)
\* the locals of the iterations, which the pool's steps leave alone
iter_vars == <<busy_set, pc, block, now, err_counter, res, result, rb, calls>>

NWorkersArgs == 0..(MAX_RESYNC_WORKERS + 1)
TranquilityArgs == 0..MaxTranquility

\* set_n_workers with the range test left out
set_n_workers_unchecked(u, n) ==
    /\ updater[u].pc = "idle"
    /\ updater' = [updater EXCEPT
          ![u] = [pc |-> "save", op |-> "set_n_workers", arg |-> n,
                  cfg |-> [persisted EXCEPT !.n_workers = n],
                  ret |-> "none"]]
    /\ UNCHANGED <<persisted, persister, worker, args, queue, errors, clock>>
    /\ UNCHANGED iter_vars

\* set_n_workers(n): the range test, then update_persisted's load of the
\* snapshot and the update of the copy
set_n_workers(u, n) ==
    /\ updater[u].pc = "idle"
    /\ IF n \in 1..MAX_RESYNC_WORKERS
       THEN updater' = [updater EXCEPT
               ![u] = [pc |-> "save", op |-> "set_n_workers", arg |-> n,
                       cfg |-> [persisted EXCEPT !.n_workers = n],
                       ret |-> "none"]]
       ELSE updater' = [updater EXCEPT
               ![u] = [pc |-> "idle", op |-> "set_n_workers", arg |-> n,
                       cfg |-> DefaultConfig, ret |-> "Err"]]
    /\ UNCHANGED <<persisted, persister, worker, args, queue, errors, clock>>
    /\ UNCHANGED iter_vars

\* set_tranquility(t): update_persisted's load and the update of the copy
set_tranquility(u, t) ==
    /\ updater[u].pc = "idle"
    /\ updater' = [updater EXCEPT
          ![u] = [pc |-> "save", op |-> "set_tranquility", arg |-> t,
                  cfg |-> [persisted EXCEPT !.tranquility = t],
                  ret |-> "none"]]
    /\ UNCHANGED <<persisted, persister, worker, args, queue, errors, clock>>
    /\ UNCHANGED iter_vars

\* a save whose failure still wakes the waiters
save_async_then_notify(u) ==
    /\ updater[u].pc = "save"
    /\ \/ /\ persister' = <<updater[u].cfg>>
          /\ updater' = [updater EXCEPT ![u].pc = "store"]
          /\ worker' = worker
       \/ /\ persister' = persister
          /\ updater' = [updater EXCEPT ![u].pc = "idle", ![u].ret = "Err",
                                        ![u].cfg = DefaultConfig]
          /\ worker' = NotifyWaiters(worker)
    /\ UNCHANGED <<persisted, args, queue, errors, clock>>
    /\ UNCHANGED iter_vars

\* self.persister.save_async(&cfg).await?: the file is replaced as a whole,
\* or the save fails, the file is as before and update_persisted returns
\* the error
save_async(u) ==
    /\ updater[u].pc = "save"
    /\ \/ /\ persister' = <<updater[u].cfg>>
          /\ updater' = [updater EXCEPT ![u].pc = "store"]
       \/ /\ persister' = persister
          /\ updater' = [updater EXCEPT ![u].pc = "idle", ![u].ret = "Err",
                                        ![u].cfg = DefaultConfig]
    /\ UNCHANGED <<persisted, worker, args, queue, errors, clock>>
    /\ UNCHANGED iter_vars

\* self.persisted.store(Arc::new(cfg))
store(u) ==
    /\ updater[u].pc = "store"
    /\ persisted' = updater[u].cfg
    /\ updater' = [updater EXCEPT ![u].pc = "notify"]
    /\ UNCHANGED <<persister, worker, args, queue, errors, clock>>
    /\ UNCHANGED iter_vars

\* self.notify.notify_waiters(); Ok(())
notify_waiters(u) ==
    /\ updater[u].pc = "notify"
    /\ worker' = NotifyWaiters(worker)
    /\ updater' = [updater EXCEPT ![u].pc = "idle", ![u].ret = "Ok",
                                  ![u].cfg = DefaultConfig]
    /\ UNCHANGED <<persisted, persister, args, queue, errors, clock>>
    /\ UNCHANGED iter_vars

update_persisted(u) == save_async(u) \/ store(u) \/ notify_waiters(u)

(***************************************************************************)
(* The worker pool: ResyncWorker::work and ResyncWorker::wait_for_work,    *)
(* called in turn by the worker manager.  An iteration is taken as a       *)
(* whole here.  A step of a worker takes no time; time passes while every  *)
(* worker is parked.                                                       *)
(***************************************************************************)
\* resync_iter on the last key of the queue that is not busy
IterOutcomesLast ==
    LET free == DOMAIN queue \ busy_set
        same(r) == [r |-> r, q |-> queue, e |-> errors, put |-> FALSE]
    IN  {same(DbError)} \cup
        IF free = {} THEN {same(IdleFor(IDLE_POLL_MS))}
        ELSE
          LET key == CHOOSE k1 \in free :
                         \A k2 \in free \ {k1} : BytesLess(k2, k1)
              hash == queue[key]
              time_msec == KeyTime(key)
              known == hash \in DOMAIN errors
              ec == IF known THEN decode(errors[hash]) ELSE NoCounter
              err_counter1 == IF known THEN add1(ec, clock + 1)
                              ELSE ErrorCounterNew(clock + 1)
          IN  IF clock < time_msec
              THEN {same(IdleFor(time_msec - clock))}
              ELSE IF known /\ clock < next_try(ec)
              THEN {[r |-> Skipped,
                     q |-> TreeRemove(
                             put_to_resync_at(queue, hash, next_try(ec)), key),
                     e |-> errors, put |-> TRUE]}
              ELSE {[r |-> DidWork,
                     q |-> TreeRemove(
                             put_to_resync_at(queue, hash,
                                              next_try(err_counter1)), key),
                     e |-> TreeInsert(errors, hash, encode(err_counter1)),
                     put |-> TRUE],
                    [r |-> DidWork, q |-> TreeRemove(queue, key),
                     e |-> TreeRemove(errors, hash), put |-> FALSE]}

\* the outcomes of one resync_iter on the trees at the time `clock`: the
\* result, the trees after it, and whether it called put_to_resync_at
IterOutcomes ==
    LET free == DOMAIN queue \ busy_set
        same(r) == [r |-> r, q |-> queue, e |-> errors, put |-> FALSE]
    IN  {same(DbError)} \cup
        IF free = {} THEN {same(IdleFor(IDLE_POLL_MS))}
        ELSE
          LET key == FirstKey(free)
              hash == queue[key]
              time_msec == KeyTime(key)
              known == hash \in DOMAIN errors
              ec == IF known THEN decode(errors[hash]) ELSE NoCounter
              err_counter1 == IF known THEN add1(ec, clock + 1)
                              ELSE ErrorCounterNew(clock + 1)
          IN  IF clock < time_msec
              THEN {same(IdleFor(time_msec - clock))}
              ELSE IF known /\ clock < next_try(ec)
              THEN {[r |-> Skipped,
                     q |-> TreeRemove(
                             put_to_resync_at(queue, hash, next_try(ec)), key),
                     e |-> errors, put |-> TRUE]}
              ELSE {[r |-> DidWork,
                     q |-> TreeRemove(
                             put_to_resync_at(queue, hash,
                                              next_try(err_counter1)), key),
                     e |-> TreeInsert(errors, hash, encode(err_counter1)),
                     put |-> TRUE],
                    [r |-> DidWork, q |-> TreeRemove(queue, key),
                     e |-> TreeRemove(errors, hash), put |-> FALSE]}

\* work(): Idle at once for a worker above n_workers; otherwise one
\* resync_iter: IdleFor(delay) sets next_delay and gives Idle, the other
\* results and a db::Error have work() called again
work(w) ==
    /\ worker[w].st = "work"
    /\ IF Index(w) >= persisted.n_workers
       THEN /\ worker' = [worker EXCEPT ![w].st = "wait_for_work"]
            /\ UNCHANGED <<queue, errors>>
       ELSE \E o \in IterOutcomes :
              /\ queue' = o.q
              /\ errors' = o.e
              /\ worker' =
                   [(IF o.put
                     THEN NotifyEnqueue(worker, persisted.n_workers, clock)
                     ELSE worker) EXCEPT
                      ![w] = [@ EXCEPT
                         !.st = IF o.r[1] = "IdleFor"
                                THEN "wait_for_work" ELSE "work",
                         !.next_delay = IF o.r[1] = "IdleFor"
                                        THEN o.r[2] ELSE @,
                         !.missed = NoTime]]
    /\ UNCHANGED <<persisted, persister, updater, args, clock>>
    /\ UNCHANGED iter_vars

\* the frame of the steps of wait_for_work
wait_frame ==
    /\ UNCHANGED <<persisted, persister, updater, args, queue, errors, clock>>
    /\ UNCHANGED iter_vars

\* wait_for_work that parks without reading n_workers again
loop_test_once(w) ==
    /\ worker[w].st = "wait_for_work"
    /\ worker' = [worker EXCEPT ![w].st = "select_new"]
    /\ wait_frame

\* while self.index >= persisted.load().n_workers
loop_test(w) ==
    /\ worker[w].st = "wait_for_work"
    /\ worker' = [worker EXCEPT
          ![w].st = IF Index(w) >= persisted.n_workers
                    THEN "notified_new" ELSE "select_new"]
    /\ wait_frame

\* notify.notified() in the loop: the future is created, the worker parks
loop_park(w) ==
    /\ worker[w].st = "notified_new"
    /\ worker' = [worker EXCEPT ![w].st = "notified", ![w].notified = FALSE]
    /\ wait_frame

\* .await in the loop returns: the loop tests n_workers again
loop_wake(w) ==
    /\ worker[w].st = "notified"
    /\ worker[w].notified
    /\ worker' = [worker EXCEPT ![w].st = "wait_for_work",
                                ![w].notified = FALSE]
    /\ wait_frame

\* select!: the sleep of next_delay and the Notified future are created
select_park(w) ==
    /\ worker[w].st = "select_new"
    /\ worker' = [worker EXCEPT ![w].st = "select", ![w].notified = FALSE,
                                ![w].wake_at = clock + worker[w].next_delay]
    /\ wait_frame

\* select! returns by its notified() branch or by its sleep branch, and
\* wait_for_work returns Busy
select_wake(w) ==
    /\ worker[w].st = "select"
    /\ worker[w].notified \/ clock >= worker[w].wake_at
    /\ worker' = [worker EXCEPT ![w].st = "work", ![w].notified = FALSE,
                                ![w].wake_at = 0]
    /\ wait_frame

wait_for_work(w) ==
    \/ loop_test(w)
    \/ loop_park(w)
    \/ loop_wake(w)
    \/ select_park(w)
    \/ select_wake(w)

\* time passes while every worker is parked and none has been woken
Advance ==
    /\ clock < MaxTime * IDLE_POLL_MS
    /\ \A w \in Workers :
          /\ Parked(worker[w])
          /\ ~worker[w].notified
          /\ worker[w].st = "select" => clock < worker[w].wake_at
    /\ clock' = clock + IDLE_POLL_MS
    /\ UNCHANGED <<persisted, persister, updater, worker, args, queue, errors>>
    /\ UNCHANGED iter_vars

(***************************************************************************)
(* SpecConfig: NumUpdaters concurrent callers of set_n_workers and         *)
(* set_tranquility, and restarts.                                          *)
(***************************************************************************)
NextConfig ==
    \/ \E u \in Updaters :
          \/ \E n \in NWorkersArgs : set_n_workers(u, n)
          \/ \E t \in TranquilityArgs : set_tranquility(u, t)
          \/ update_persisted(u)
    \/ Restart

SpecConfig == Init /\ [][NextConfig]_vars

(***************************************************************************)
(* SpecPool: the workers of the pool, one caller of set_n_workers and      *)
(* set_tranquility, the producers and restarts, while no time passes (no   *)
(* sleep elapses).                                                         *)
(***************************************************************************)
NextPool ==
    \/ \E w \in Workers : work(w) \/ wait_for_work(w)
    \/ \E n \in NWorkersArgs : set_n_workers(1, n)
    \/ \E t \in TranquilityArgs : set_tranquility(1, t)
    \/ update_persisted(1)
    \/ Producer
    \/ Restart

SpecPool == Init /\ [][NextPool]_vars

\* SpecPool under fair scheduling: a worker that can take a step takes it
\* (work() is called again by the worker manager; inside wait_for_work the
\* worker tests the loop condition, creates its future, resumes when the
\* future is completed), and a call of update_persisted that is in flight
\* goes on.  New calls of set_n_workers / set_tranquility and new enqueues
\* need not come.  work(w) can be taken exactly when w is at "work".
SpecPoolFair ==
    /\ SpecPool
    /\ \A w \in Workers :
          /\ WF_vars(wait_for_work(w))
          /\ []<>(worker[w].st # "work") \/ []<><<work(w)>>_vars
    /\ WF_vars(update_persisted(1))

(***************************************************************************)
(* SpecTimed: the workers of the pool under the configuration loaded at    *)
(* the start, the producers, restarts, and the passing of time.            *)
(***************************************************************************)
NextTimed ==
    \/ \E w \in Workers : work(w) \/ wait_for_work(w)
    \/ Producer
    \/ Advance
    \/ Restart

SpecTimed == Init /\ [][NextTimed]_vars

(***************************************************************************)
(* Properties.                                                             *)
(***************************************************************************)
Holding(w) == block[w] # NoBlock
HashOf(w) == block[w].hash_bytes
KeyOf(w) == block[w].time_bytes
\* the key a back-off skip or a failure inserts
NewKey(w) == QueueKey(next_try(err_counter[w]), HashOf(w))
EntriesOf(hash) == {k \in DOMAIN queue : queue[k] = hash}

\* C1: at every moment a QueueKey is held (claimed in the busy set for an
\* iteration in flight) by at most one worker, and every key held is in the
\* busy set.
C1_OneWorkerPerKey ==
    \A w1 \in Workers :
        Holding(w1) =>
            /\ KeyOf(w1) \in busy_set
            /\ \A w2 \in Workers \ {w1} : Holding(w2) => KeyOf(w2) # KeyOf(w1)

\* two workers are each inside resync_block, on two entries of the same block
C1_Witness ==
    \E w1, w2 \in Workers :
        /\ w1 # w2
        /\ pc[w1] = "resync_block" /\ pc[w2] = "resync_block"
        /\ HashOf(w1) = HashOf(w2)
        /\ KeyOf(w1) # KeyOf(w2)

\* C3: an iteration that replaces its entry (back-off skip, failure) inserts
\* a key that differs from the claimed one (next_try > now >= when), and in
\* every state of an iteration before its own remove, also one it is aborted
\* in by a store error or a crash, the queue holds an entry for the block:
\* the claimed key is in the queue until the iteration removes it, after the
\* insert.
C3_InsertBeforeRemove ==
    \A w \in Workers :
        /\ (Holding(w) /\ (pc[w] # "ret" \/ result[w] = DbError)) =>
               /\ KeyOf(w) \in DOMAIN queue
               /\ EntriesOf(HashOf(w)) # {}
        /\ pc[w] \in {"skip_put", "skip_remove", "fail_put", "fail_remove"} =>
               /\ next_try(err_counter[w]) > now[w]
               /\ now[w] >= KeyTime(KeyOf(w))
               /\ NewKey(w) # KeyOf(w)

\* a worker is between the insert and the remove of a replacement, both
\* entries in the queue, after the clock has gone back
C3_Witness ==
    \E w \in Workers :
        /\ pc[w] \in {"skip_remove", "fail_remove"}
        /\ KeyOf(w) \in DOMAIN queue
        /\ NewKey(w) \in DOMAIN queue
        /\ clock < now[w]

\* the positions of the calls named `name` in the calls of w's resync_block
CallsOf(w, name) == {i \in DOMAIN calls[w] : calls[w][i].call = name}
Called(w, name) == CallsOf(w, name) # {}
\* the errors of the offload that precede the delete
OffloadErrors ==
    {"no_quorum", "call_many", "NeedBlockQuery RPC", "unexpected_rpc_message",
     "read_block", "Req::new", "PutBlock RPC"}

\* C2: in the offload path delete_if_unneeded is called only after the write
\* set had at least write_quorum members, every peer asked replied with a
\* NeedBlockReply, and every peer that replied need=true acknowledged the
\* PutBlock sent before the delete; below the quorum no RPC is sent; when
\* one of the three fails resync_block fails, the iteration takes the failure
\* path, and neither delete_if_unneeded nor clear_deleted_block_rc is called.
C2_OffloadBeforeDelete ==
    \A w \in Workers :
        /\ Called(w, "delete_if_unneeded") =>
              /\ rb[w].exists /\ rb[w].is_deletable
              /\ Cardinality(rb[w].write_nodes) >= rb[w].write_quorum
              /\ DOMAIN rb[w].replies = rb[w].write_nodes \ {Self}
              /\ \A n \in DOMAIN rb[w].replies :
                     rb[w].replies[n]
                         \in {"NeedBlockReply(true)", "NeedBlockReply(false)"}
              /\ rb[w].acks = need_nodes(rb[w].replies)
              /\ need_nodes(rb[w].replies) # {} =>
                     \E i \in CallsOf(w, "PutBlock") :
                         /\ calls[w][i].nodes = need_nodes(rb[w].replies)
                         /\ \A j \in CallsOf(w, "delete_if_unneeded") : i < j
        /\ Called(w, "clear_deleted_block_rc") =>
               Called(w, "delete_if_unneeded")
        /\ (/\ rb[w].write_quorum > 0
            /\ Cardinality(rb[w].write_nodes) < rb[w].write_quorum) =>
               /\ calls[w] = <<>>
               /\ res[w] = "no_quorum"
        /\ res[w] \in OffloadErrors =>
               /\ ~Called(w, "delete_if_unneeded")
               /\ ~Called(w, "clear_deleted_block_rc")
               /\ pc[w] \in {"resynced", "fail_insert", "fail_put",
                             "fail_remove", "ret"}
               /\ pc[w] = "ret" => result[w] \in {DidWork, DbError}

\* the delete is called after one of two peers replied need=true and
\* acknowledged the PutBlock, the other replied need=false
C2_Witness ==
    \E w \in Workers :
        /\ Called(w, "delete_if_unneeded")
        /\ Called(w, "PutBlock")
        /\ \E n \in DOMAIN rb[w].replies :
               rb[w].replies[n] = "NeedBlockReply(false)"
        /\ rb[w].acks # {}

\* worker w takes the step of resync_iter that leads from `from` to `to`
Step(w, from, to) == pc[w] = from /\ pc'[w] = to
\* the counter stored for w's block
Stored(w) == decode(errors[HashOf(w)])
\* w's iteration has run its failure path to the end
FailedIteration(w) ==
    pc[w] = "ret" /\ IsErr(res[w]) /\ result[w] = DidWork

C6_FailuresRescheduled ==
    [][\A w \in Workers :
          /\ (IsErr(res[w]) /\ pc'[w] # pc[w]) =>
                 \/ Step(w, "resynced", "fail_insert")
                 \/ Step(w, "fail_insert", "fail_put")
                 \/ Step(w, "fail_put", "fail_remove")
                 \/ Step(w, "fail_remove", "ret") /\ result'[w] = DidWork
                 \/ pc'[w] = "ret" /\ result'[w] = DbError
                 \/ pc'[w] = "work"
          /\ (Step(w, "resynced", "fail_insert") /\ IsErr(res[w])) =>
                 /\ err_counter'[w].errors
                        = IF HashOf(w) \in DOMAIN errors
                          THEN Stored(w).errors + 1 ELSE 1
                 /\ err_counter'[w].last_try = now[w] + 1
          /\ (IsErr(res[w]) /\ pc[w] # "ret" /\ pc'[w] = "ret") =>
                 \/ /\ result'[w] = DidWork
                    /\ HashOf(w) \in DOMAIN errors'
                    /\ decode(errors'[HashOf(w)]) = err_counter[w]
                    /\ NewKey(w) \in DOMAIN queue'
                    /\ KeyOf(w) \notin DOMAIN queue'
                 \/ /\ result'[w] = DbError
                    /\ KeyOf(w) \in DOMAIN queue'
          /\ (IsErr(res[w]) /\ pc[w] = "ret" /\ pc'[w] # pc[w]) =>
                 pc'[w] = "work"]_vars

\* every error that resync_block returns has been handled to the end of the
\* failure path; here one of them
C6_Witness ==
    \E w \in Workers :
        /\ FailedIteration(w)
        /\ res[w] = "PutBlock RPC"
        /\ NewKey(w) \in DOMAIN queue
        /\ KeyOf(w) \notin DOMAIN queue
        /\ Stored(w) = err_counter[w]

\* the back-off test of errors_get, on the error tree as w's step reads it
Backoff(w) ==
    /\ HashOf(w) \in DOMAIN errors
    /\ now[w] < next_try(Stored(w))

\* C7: when the entry claimed is due (when <= now) and the error tree holds a
\* counter for its block with next_try > now, the iteration does not call
\* resync_block, changes nothing in the error tree, inserts the entry
\* (next_try, b), then removes the claimed entry, and returns Skipped (a
\* store error apart, which the iteration returns).
C7_BackoffSkip ==
    [][\A w \in Workers :
          /\ (pc[w] = "errors_get" /\ Backoff(w) /\ pc'[w] # pc[w]) =>
                 /\ now[w] >= KeyTime(KeyOf(w))
                 /\ \/ /\ pc'[w] = "skip_put"
                       /\ err_counter'[w] = Stored(w)
                    \/ pc'[w] = "ret" /\ result'[w] = DbError
                    \/ pc'[w] = "work"
                 /\ queue' = queue
                 /\ errors' = errors
          /\ (pc[w] \in {"skip_put", "skip_remove"} /\ pc'[w] # pc[w]) =>
                 /\ \/ /\ Step(w, "skip_put", "skip_remove")
                       /\ queue' = TreeInsert(queue, NewKey(w), HashOf(w))
                    \/ /\ Step(w, "skip_remove", "ret")
                       /\ result'[w] = Skipped
                       /\ queue' = TreeRemove(queue, KeyOf(w))
                       /\ NewKey(w) # KeyOf(w)
                    \/ pc'[w] = "ret" /\ result'[w] = DbError /\ queue' = queue
                    \/ pc'[w] = "work"
                 /\ errors' = errors
                 /\ res[w] = "None" /\ res'[w] = "None"
                 /\ calls[w] = <<>> /\ calls'[w] = <<>>
          /\ (pc[w] # "ret" /\ pc'[w] = "ret" /\ result'[w] = Skipped) =>
                 Step(w, "skip_remove", "ret")]_vars

\* a back-off skip has ended: the entry at next_try is in the queue, the
\* claimed one is not, the counter is the one that was read
C7_Witness ==
    \E w \in Workers :
        /\ pc[w] = "ret" /\ result[w] = Skipped
        /\ NewKey(w) \in DOMAIN queue
        /\ KeyOf(w) \notin DOMAIN queue
        /\ HashOf(w) \in DOMAIN errors /\ Stored(w) = err_counter[w]
        /\ err_counter[w].errors = 2

\* C8: when the entry claimed is not due (when > now), iter() returns
\* IdleFor(when - now) without a change to the queue or the error tree and
\* without a call of resync_block, the entry stays in the queue, and its key
\* leaves the busy set when iter() returns.
C8_NotDueIdle ==
    [][\A w \in Workers :
          /\ (pc[w] = "claimed" /\ clock < KeyTime(KeyOf(w))
                /\ pc'[w] \notin {"claimed", "work"}) =>
                 /\ pc'[w] = "ret"
                 /\ result'[w] = IdleFor(KeyTime(KeyOf(w)) - clock)
                 /\ queue' = queue /\ errors' = errors
                 /\ KeyOf(w) \in DOMAIN queue'
                 /\ KeyOf(w) \in busy_set'
                 /\ res'[w] = "None" /\ calls'[w] = <<>>
          /\ (pc[w] = "claimed" /\ clock >= KeyTime(KeyOf(w))
                /\ pc'[w] \notin {"claimed", "work"}) =>
                 pc'[w] = "errors_get"
          /\ (pc[w] = "work" /\ pc'[w] # pc[w]) =>
                 queue' = queue /\ errors' = errors
          /\ (Step(w, "ret", "work") /\ Holding(w)) =>
                 /\ KeyOf(w) \in busy_set
                 /\ KeyOf(w) \notin busy_set'
                 /\ queue' = queue /\ errors' = errors]_vars

\* iter() is about to return IdleFor(when - now) for an entry not yet due
C8_Witness ==
    \E w \in Workers :
        /\ pc[w] = "ret" /\ Holding(w)
        /\ result[w] = IdleFor(KeyTime(KeyOf(w)) - now[w])
        /\ KeyTime(KeyOf(w)) > now[w]
        /\ KeyOf(w) \in DOMAIN queue

\* C9: the counter of a block counts its failed iterations since its last
\* success, for any number of workers: a failure finds no counter and stores
\* errors = 1, or finds one and stores its errors + 1.
C9_CountsEveryFailure ==
    [][\A w \in Workers :
          Step(w, "fail_insert", "fail_put") =>
              decode(errors'[HashOf(w)]).errors
                  = IF HashOf(w) \in DOMAIN errors
                    THEN Stored(w).errors + 1 ELSE 1]_vars

FarClock ==
    1 + RESYNC_RETRY_DELAY_MS * 2 ^ (RESYNC_RETRY_DELAY_MAX_BACKOFF_POWER + 1)

InitCounter ==
    /\ \E n \in 1..MaxErrors, h \in Hashes :
          /\ errors = TreeInsert(EmptyTree, h,
                                 encode([errors |-> n, last_try |-> 1]))
          /\ queue = put_to_resync_at(EmptyTree, h, 0)
    /\ clock \in {0, FarClock}
    /\ busy_set = {}
    /\ pc = [w \in Workers |-> "work"]
    /\ block = [w \in Workers |-> NoBlock]
    /\ now = [w \in Workers |-> 0]
    /\ err_counter = [w \in Workers |-> NoCounter]
    /\ res = [w \in Workers |-> "None"]
    /\ result = [w \in Workers |-> NoResult]
    /\ rb = [w \in Workers |-> NoLocals]
    /\ calls = [w \in Workers |-> <<>>]
    /\ PoolInit
    /\ args = NoArgs

NextCounter ==
    \/ resync_iter(1) \/ resync_block_any(1)
    \/ Producer
    \/ Tick
    \/ Restart

SpecCounter == InitCounter /\ [][NextCounter]_vars

\* 1, 2, 4, 8, 16, 32, 64 minutes, and 64 minutes from the 7th error on
BackoffMinutes == <<1, 2, 4, 8, 16, 32, 64>>
ExpectedDelay(n) == BackoffMinutes[Min(n, Len(BackoffMinutes))] * 60 * 1000
\* the counters the program holds: those stored in the error tree and those
\* an iteration has read or built
CountersInUse ==
    {decode(errors[h]) : h \in DOMAIN errors}
        \cup {err_counter[w] : w \in {x \in Workers :
                  pc[x] \in {"skip_put", "skip_remove", "fail_insert",
                             "fail_put", "fail_remove"}}}

\* C11: every counter stored in the error tree, or held by an iteration, has
\* errors = n >= 1; its delay is 60000 * 2^min(n-1, 6) ms, that is 1, 2, 4,
\* 8, 16, 32, 64 minutes for n = 1..7 and 64 minutes for every n >= 7; and
\* its next_try is last_try + delay.
C11_BackoffDelay ==
    \A ec \in CountersInUse :
        /\ ec.errors >= 1
        /\ delay_msec(ec) = ExpectedDelay(ec.errors)
        /\ delay_msec(ec)
              = RESYNC_RETRY_DELAY_MS
                  * 2 ^ Min(ec.errors - 1, RESYNC_RETRY_DELAY_MAX_BACKOFF_POWER)
        /\ next_try(ec) = ec.last_try + delay_msec(ec)

\* a failure has incremented a counter past the saturation of the exponent,
\* and the block is enqueued 64 minutes after its last try
C11_Witness ==
    \E h \in DOMAIN errors :
        /\ decode(errors[h]).errors > Len(BackoffMinutes) + 1
        /\ decode(errors[h]).last_try = FarClock + 1
        /\ QueueKey(FarClock + 1 + 64 * 60 * 1000, h) \in DOMAIN queue

(***************************************************************************)
(* SpecKeys: two entries (t1, h1) and (t2, h2), drawn from due times on    *)
(* both sides of a byte boundary and from hashes that differ in any byte,  *)
(* are given to put_to_resync_at in either order, and a worker claims the  *)
(* first entry of the queue.                                               *)
(***************************************************************************)
KeyTimes == {a * 256 + b : a, b \in 0..MaxKeyByte}
KeyHashes == [1..HashLen -> 0..MaxKeyByte]

InitKeys ==
    /\ args \in [t1 : KeyTimes, h1 : KeyHashes, t2 : KeyTimes, h2 : KeyHashes]
    /\ queue = EmptyTree
    /\ errors = EmptyTree
    /\ busy_set = {}
    /\ clock = 0
    /\ pc = [w \in Workers |-> "work"]
    /\ block = [w \in Workers |-> NoBlock]
    /\ now = [w \in Workers |-> 0]
    /\ err_counter = [w \in Workers |-> NoCounter]
    /\ res = [w \in Workers |-> "None"]
    /\ result = [w \in Workers |-> NoResult]
    /\ rb = [w \in Workers |-> NoLocals]
    /\ calls = [w \in Workers |-> <<>>]
    /\ PoolInit

\* put_to_resync_at(h1, t1), before any worker has claimed an entry
put_first ==
    /\ \A w \in Workers : pc[w] = "work"
    /\ QueueKey(args.t1, args.h1) \notin DOMAIN queue
    /\ queue' = put_to_resync_at(queue, args.h1, args.t1)
    /\ UNCHANGED pool_vars
    /\ UNCHANGED <<errors, busy_set, clock, pc, block, now, err_counter, res,
                   result, rb, calls>>

\* put_to_resync_at(h2, t2), before any worker has claimed an entry
put_second ==
    /\ \A w \in Workers : pc[w] = "work"
    /\ QueueKey(args.t2, args.h2) \notin DOMAIN queue
    /\ queue' = put_to_resync_at(queue, args.h2, args.t2)
    /\ UNCHANGED pool_vars
    /\ UNCHANGED <<errors, busy_set, clock, pc, block, now, err_counter, res,
                   result, rb, calls>>

NextKeys ==
    \/ put_first
    \/ put_second
    \/ get_block_to_resync(1)

SpecKeys == InitKeys /\ [][NextKeys]_vars

\* the order of the pairs: unsigned integers first, then bytes
PairLess(t1, h1, t2, h2) == t1 < t2 \/ (t1 = t2 /\ BytesLess(h1, h2))

\* C12: the QueueKeys of two entries (t1, h1) and (t2, h2) compare, byte by
\* byte, as the pairs compare by (unsigned integer, bytes); the tree holds
\* each entry under its key with its hash as the value and its due time in
\* the first 8 bytes; and the entry a worker claims from a queue in which
\* nothing is claimed has the smallest due time of the queue.
C12_KeyOrder ==
    /\ BytesLess(QueueKey(args.t1, args.h1), QueueKey(args.t2, args.h2))
          <=> PairLess(args.t1, args.h1, args.t2, args.h2)
    /\ BytesLess(QueueKey(args.t2, args.h2), QueueKey(args.t1, args.h1))
          <=> PairLess(args.t2, args.h2, args.t1, args.h1)
    /\ \A k \in DOMAIN queue :
          \/ k = QueueKey(args.t1, args.h1)
                /\ KeyTime(k) = args.t1 /\ queue[k] = args.h1
          \/ k = QueueKey(args.t2, args.h2)
                /\ KeyTime(k) = args.t2 /\ queue[k] = args.h2
    /\ (pc[1] = "claimed" /\ Cardinality(DOMAIN queue) = 2) =>
          /\ KeyTime(block[1].time_bytes) = Min(args.t1, args.t2)
          /\ \A k \in DOMAIN queue :
                KeyTime(block[1].time_bytes) <= KeyTime(k)
          /\ block[1].hash_bytes
                = IF PairLess(args.t1, args.h1, args.t2, args.h2)
                  THEN args.h1 ELSE args.h2

\* the worker has claimed the entry due at 256 from a queue that also holds
\* an entry due at 2: the later entry was put first, and its time has the
\* smaller low byte
C12_Witness ==
    /\ args.t1 = 256 /\ args.t2 = 2
    /\ Cardinality(DOMAIN queue) = 2
    /\ pc[1] = "claimed"
    /\ block[1].time_bytes = QueueKey(args.t2, args.h2)

\* the calls of set_n_workers that have returned
Returned(u) == updater[u].pc = "idle" /\ updater[u].ret # "none"
InRange(n) == 1 <= n /\ n <= MAX_RESYNC_WORKERS

\* C13 (as amended): set_n_workers(n) with n outside 1..4 returns an error at
\* once, without a save; with 1 <= n <= 4 it goes on to update_persisted and
\* succeeds if and only if the durable save succeeds: it returns the error
\* of a failed save, and Ok only after the save, the store and the
\* notification.
C13_SetNWorkers ==
    [][\A u \in Updaters :
          /\ (updater[u].pc = "idle" /\ updater'[u] # updater[u]
                /\ updater'[u].op = "set_n_workers") =>
                 IF InRange(updater'[u].arg)
                 THEN updater'[u].pc = "save" /\ updater'[u].ret = "none"
                 ELSE /\ updater'[u].pc = "idle" /\ updater'[u].ret = "Err"
                      /\ persister' = persister /\ persisted' = persisted
          /\ (updater[u].pc = "save" /\ updater'[u] # updater[u]) =>
                 \/ /\ updater'[u].pc = "store" /\ updater'[u].ret = "none"
                    /\ persister' = <<updater[u].cfg>>
                 \/ /\ updater'[u].pc = "idle" /\ updater'[u].ret = "Err"
                    /\ persister' = persister
                 \/ updater'[u] = NoCall
          /\ (updater[u].pc \in {"store", "notify"}
                /\ updater'[u] # updater[u]) =>
                 \/ updater[u].pc = "store" /\ updater'[u].pc = "notify"
                       /\ updater'[u].ret = "none"
                 \/ updater[u].pc = "notify" /\ updater'[u].pc = "idle"
                       /\ updater'[u].ret = "Ok"
                 \/ updater'[u] = NoCall
          /\ (updater'[u].ret = "Ok" /\ updater[u].ret # "Ok") =>
                 updater[u].pc = "notify"]_vars

\* C13 as stated: a call of set_n_workers(n) that has returned has succeeded
\* if and only if 1 <= n <= 4.
C13_SucceedsIffInRange ==
    \A u \in Updaters :
        (Returned(u) /\ updater[u].op = "set_n_workers") =>
            (updater[u].ret = "Ok" <=> InRange(updater[u].arg))

\* one call of set_n_workers with n in range has failed at the save, and
\* another has succeeded
C13_Witness ==
    \E u1, u2 \in Updaters :
        /\ Returned(u1) /\ updater[u1].op = "set_n_workers"
        /\ InRange(updater[u1].arg) /\ updater[u1].ret = "Err"
        /\ Returned(u2) /\ updater[u2].op = "set_n_workers"
        /\ updater[u2].ret = "Ok"
        /\ persisted.n_workers = updater[u2].arg

\* the configuration a call in flight is about to save, as built from the
\* snapshot now published
Updated(u) ==
    IF updater[u].op = "set_n_workers"
    THEN [persisted EXCEPT !.n_workers = updater[u].arg]
    ELSE [persisted EXCEPT !.tranquility = updater[u].arg]

\* C14: a call of set_n_workers or set_tranquility returns an error either
\* at the range test or at the save, before its store and its
\* notify_waiters: at the return the published snapshot is what it was when
\* the call started, the step changes neither the snapshot nor the file, and
\* no worker is woken by it.
C14_ErrorChangesNothing ==
    [][\A u \in Updaters :
          (updater'[u].ret = "Err" /\ updater'[u] # updater[u]) =>
              /\ updater[u].pc \in {"idle", "save"}
              /\ updater[u].pc = "save" => updater[u].cfg = Updated(u)
              /\ persisted' = persisted
              /\ persister' = persister
              /\ worker' = worker]_vars

\* a set_tranquility has failed at its save while a worker was parked: the
\* worker has not been woken and the snapshot keeps the old tranquility
C14_Witness ==
    \E u \in Updaters, w \in Workers :
        /\ Returned(u) /\ updater[u].ret = "Err"
        /\ updater[u].op = "set_tranquility"
        /\ persisted.tranquility # updater[u].arg
        /\ worker[w].st = "notified" /\ ~worker[w].notified

\* C15: whenever no call of set_n_workers or set_tranquility is in flight,
\* the configuration a restart would load is the published snapshot.
C15_PersistedIsPublished ==
    (\A u \in Updaters : updater[u].pc = "idle") =>
        Load(persister) = persisted

\* w is in the loop of wait_for_work: it has read index >= n_workers
InactiveWait(w) == worker[w].st \in {"notified_new", "notified"}

\* C16: under fair scheduling, once no update is in flight and the published
\* n_workers is above the index of a worker that is in its inactive wait,
\* the worker leaves the inactive wait (unless n_workers is lowered again
\* first), without any later enqueue or configuration change.
C16_ActivatedWorkerLeavesWait ==
    \A w \in Workers :
        (/\ InactiveWait(w)
         /\ Index(w) < persisted.n_workers
         /\ \A u \in Updaters : updater[u].pc = "idle")
            ~> (~InactiveWait(w) \/ Index(w) >= persisted.n_workers)

\* C19: a worker whose index is >= the published n_workers when it starts a
\* work step does not run an iteration: the queue, the error tree and the
\* busy set stay as they are and it reports Idle.  Its wait then returns
\* (the worker gets to "work" again) only from the select, which it reaches
\* only by a test of the loop condition that finds index < n_workers; a
\* notification that arrives while it is parked in the loop only makes it
\* test the condition again.
C19_InactiveWorkerWaits ==
    [][\A w \in Workers :
          \/ worker'[w] = worker[w]
          \/ worker'[w] = NewWorker /\ updater' = [u \in Updaters |-> NoCall]
          \/ worker'[w] = [worker[w] EXCEPT !.missed = clock]
          \/ /\ worker[w].st = "work"
             /\ Index(w) >= persisted.n_workers =>
                   /\ worker'[w].st = "wait_for_work"
                   /\ queue' = queue /\ errors' = errors
                   /\ busy_set' = busy_set
          \/ /\ worker[w].st = "wait_for_work"
             /\ worker'[w].st = IF Index(w) >= persisted.n_workers
                                THEN "notified_new" ELSE "select_new"
          \/ /\ worker[w].st = "notified_new"
             /\ worker'[w].st = "notified"
          \/ /\ worker[w].st = "notified"
             /\ \/ worker'[w] = [worker[w] EXCEPT !.notified = TRUE]
                \/ worker[w].notified /\ worker'[w].st = "wait_for_work"
          \/ /\ worker[w].st = "select_new"
             /\ worker'[w].st \in {"select_new", "select"}
          \/ /\ worker[w].st = "select"
             /\ worker'[w].st \in {"select", "work"}]_vars

\* a worker above n_workers is parked in the loop after an enqueue has woken
\* it once and it has tested the condition again: the entry is still in the
\* queue and is due
C19_Witness ==
    \E w \in Workers :
        /\ Index(w) >= persisted.n_workers
        /\ worker[w].st = "notified"
        /\ worker[w].notified
        /\ \E k \in DOMAIN queue : KeyTime(k) <= clock
        /\ \E u \in Updaters : updater[u].ret = "Ok"

\* C20: an active worker that missed the notification of an enqueue, between
\* its iteration returning IdleFor and the start of its wait, calls iter()
\* again at most 10 seconds after that enqueue.
C20_MissedEnqueueSeenWithinPoll ==
    \A w \in Workers :
        worker[w].missed # NoTime =>
            clock - worker[w].missed <= IDLE_POLL_MS

\* the workers with a resync_iter in flight
InFlight == {w \in Workers : pc[w] # "work"}

\* C17: when resync_iter returns, with any result (BusyDidSomething,
\* BusyDidNothing, IdleFor or a db::Error), the key it claimed is no longer in
\* the busy set; the busy set is empty when no iteration is in flight and
\* never holds more keys than there are iterations in flight.
C17_BusySetReleased ==
    /\ [](/\ Cardinality(busy_set) <= Cardinality(InFlight)
          /\ InFlight = {} => busy_set = {}
          /\ \A w \in Workers : Holding(w) => w \in InFlight)
    /\ [][\A w \in Workers :
             (pc[w] = "ret" /\ pc'[w] = "work" /\ Holding(w)) =>
                 /\ KeyOf(w) \in busy_set
                 /\ KeyOf(w) \notin busy_set'
                 /\ ~Holding(w)']_vars

\* an iteration is about to return a db::Error while it holds the only busy
\* key, after an earlier iteration has failed and returned (its counter is in
\* the error tree) and while the other worker is between two iterations
C17_Witness ==
    \E w \in Workers :
        /\ pc[w] = "ret" /\ result[w] = DbError
        /\ Holding(w)
        /\ busy_set = {KeyOf(w)}
        /\ errors # EmptyTree
        /\ \A w2 \in Workers \ {w} : pc[w2] = "work" /\ ~Holding(w2)

\* C18: get_block_to_resync claims the smallest key of the queue that is not
\* in the busy set; when there is none (the queue is empty or every entry is
\* claimed) the iteration returns IdleFor(10 s) and changes neither the
\* queue, the error tree nor the busy set; so of two workers that iterate on
\* a queue of one entry, one claims it and the other returns IdleFor(10 s)
\* (a db::Error of the queue iterator apart, which the iteration returns
\* without a claim).
C18_ClaimsSmallestFree ==
    [][\A w \in Workers :
          (pc[w] = "work" /\ pc'[w] # "work") =>
              LET free == DOMAIN queue \ busy_set
                  key  == block'[w].time_bytes
              IN  /\ UNCHANGED <<queue, errors>>
                  /\ IF free = {}
                     THEN /\ pc'[w] = "ret"
                          /\ result'[w] \in {IdleFor(IDLE_POLL_MS), DbError}
                          /\ block'[w] = NoBlock
                          /\ UNCHANGED busy_set
                     ELSE \/ /\ pc'[w] = "claimed"
                             /\ key \in free
                             /\ \A k \in free \ {key} : BytesLess(key, k)
                             /\ block'[w].hash_bytes = queue[key]
                             /\ busy_set' = busy_set \cup {key}
                             /\ \A w2 \in Workers \ {w} :
                                   Holding(w2) => KeyOf(w2) # key
                          \/ /\ pc'[w] = "ret"
                             /\ result'[w] = DbError
                             /\ block'[w] = NoBlock
                             /\ UNCHANGED busy_set]_vars

\* the queue holds one entry, which is due; one worker has claimed it and the
\* other has found nothing to claim and returns IdleFor(10 s)
C18_Witness ==
    \E w, w2 \in Workers :
        /\ w # w2
        /\ Cardinality(DOMAIN queue) = 1
        /\ \A k \in DOMAIN queue : KeyTime(k) <= clock
        /\ pc[w] = "claimed" /\ KeyOf(w) \in DOMAIN queue
        /\ pc[w2] = "ret" /\ result[w2] = IdleFor(IDLE_POLL_MS)
        /\ ~Holding(w2)

\* the calls of the offload and of the fetch, and the errors they return
OffloadCalls ==
    {"NeedBlockQuery", "read_block", "PutBlock", "delete_if_unneeded",
     "clear_deleted_block_rc"}
FetchCalls == {"rpc_get_raw_block", "resync_recv_counter.add", "write_block"}
DeleteErrors == {"delete_if_unneeded", "clear_deleted_block_rc"}
FetchErrors == {"rpc_get_raw_block", "write_block"}
\* w's resync_block has read the block status
StatusRead(w) ==
    \/ pc[w] \in {"rb_offload", "rb_who_needs", "rb_read_block",
                  "rb_put_block", "rb_delete", "rb_fetch",
                  "rb_get_raw_block", "rb_write_block"}
    \/ res[w] \notin {"None", "check_block_status"}
OffloadGuard(w) == rb[w].exists /\ rb[w].is_deletable
FetchGuard(w) == rb[w].is_nonzero /\ ~rb[w].exists
\* w's resync_block has returned Ok
Succeeded(w) == res[w] = "Ok"

\* C21: for every status (exists, is_nonzero, is_deletable), read once,
\* resync_block runs the offload and the delete if and only if exists and
\* is_deletable, runs the fetch (rpc_get_raw_block, then resync_recv_counter
\* + 1, then write_block with the bytes fetched) if and only if is_nonzero
\* and not exists, and in every other case calls nothing and returns Ok.
C21_StatusDecides ==
    \A w \in Workers :
        /\ (\E i \in DOMAIN calls[w] : calls[w][i].call \in OffloadCalls)
               => StatusRead(w) /\ OffloadGuard(w)
        /\ res[w] \in OffloadErrors \cup DeleteErrors
               => StatusRead(w) /\ OffloadGuard(w)
        /\ (Succeeded(w) /\ OffloadGuard(w)) =>
               \E i \in CallsOf(w, "delete_if_unneeded") :
                   \E j \in CallsOf(w, "clear_deleted_block_rc") : i < j
        /\ (\E i \in DOMAIN calls[w] : calls[w][i].call \in FetchCalls)
               => StatusRead(w) /\ FetchGuard(w)
        /\ res[w] \in FetchErrors => StatusRead(w) /\ FetchGuard(w)
        /\ (Succeeded(w) /\ FetchGuard(w)) =>
               \E i \in DOMAIN calls[w] :
                   /\ i + 2 = Len(calls[w])
                   /\ calls[w][i].call = "rpc_get_raw_block"
                   /\ calls[w][i + 1] = Call("resync_recv_counter.add", {}, 1)
                   /\ calls[w][i + 2] =
                          Call("write_block", {}, rb[w].block_data)
                   /\ rb[w].block_data \in BlockBytes
        /\ \A i \in CallsOf(w, "write_block") :
               /\ calls[w][i].data = rb[w].block_data
               /\ i > 1
               /\ calls[w][i - 1].call = "resync_recv_counter.add"
        /\ (StatusRead(w) /\ ~OffloadGuard(w) /\ ~FetchGuard(w)) =>
               /\ calls[w] = <<>>
               /\ pc[w] \in {"rb_offload", "rb_fetch"} \/ res[w] = "Ok"

\* an invocation has fetched the bytes 0xAB of a block that is needed and
\* absent, and has returned Ok
C21_Witness ==
    \E w \in Workers :
        /\ Succeeded(w)
        /\ FetchGuard(w) /\ ~rb[w].is_deletable
        /\ Called(w, "write_block")
        /\ rb[w].block_data = 171

\* C22 (as amended): no invocation of resync_block runs both cases: the
\* fetch guard is evaluated with the `exists` read at the start, the one the
\* offload guard was evaluated with, so that after an offload and delete
\* (exists was true) the fetch is never run, whatever is_nonzero is.
C22_CasesExclusive ==
    \A w \in Workers :
        /\ ~(/\ \E i \in DOMAIN calls[w] : calls[w][i].call \in OffloadCalls
             /\ \E i \in DOMAIN calls[w] : calls[w][i].call \in FetchCalls)
        /\ (Called(w, "clear_deleted_block_rc") /\ Succeeded(w)) =>
               calls[w][Len(calls[w])].call = "clear_deleted_block_rc"

\* an invocation whose status was exists, is_deletable and is_nonzero has run
\* the offload and the delete and has returned Ok
C22_Witness ==
    \E w \in Workers :
        /\ Succeeded(w)
        /\ rb[w].exists /\ rb[w].is_deletable /\ rb[w].is_nonzero
        /\ Called(w, "clear_deleted_block_rc")

\* C22 as stated: with the status exists, is_deletable and is_nonzero, an
\* invocation that returns Ok has run the offload and delete and then the
\* fetch, its guard evaluated after the delete.
C22_BothCasesInOrder ==
    \A w \in Workers :
        (/\ Succeeded(w)
         /\ rb[w].exists /\ rb[w].is_deletable /\ rb[w].is_nonzero) =>
            \E i \in CallsOf(w, "delete_if_unneeded") :
                \E j \in CallsOf(w, "rpc_get_raw_block") : i < j

\* the workers with an iteration in flight on the block `hash`
IterationsOn(hash) == {w \in Workers : Holding(w) /\ HashOf(w) = hash}

\* C23: in every state where no iteration on block b is in flight, if the
\* error tree holds a counter for b then the queue holds at least one entry
\* for b.
C23_ErrorHasRetry ==
    \A hash \in DOMAIN errors :
        IterationsOn(hash) = {} => EntriesOf(hash) # {}

(***************************************************************************)
(* SpecEnqueue: one worker, resync_block call by call, and one observed    *)
(* put_to_resync_at(b, when) of the key the worker holds, made while its    *)
(* iteration is in flight; args keeps whether the worker had read the block *)
(* status before it.  The behaviours end with the observed iteration.       *)
(***************************************************************************)
Observed == DOMAIN args # {}
\* the observed iteration is not over
Observing == IF Observed THEN Holding(args.w) ELSE TRUE

\* put_to_resync_at(hash, when) with the key that worker w holds: the insert
\* (which overwrites the entry when it is still in the queue), then
\* notify_waiters
enqueue_at_claimed(w) ==
    /\ ~Observed
    /\ Holding(w) /\ pc[w] # "ret"
    /\ queue' = put_to_resync_at(queue, HashOf(w), KeyTime(KeyOf(w)))
    /\ worker' = NotifyEnqueue(worker, persisted.n_workers, clock)
    /\ args' = [w |-> w, hash |-> HashOf(w), key |-> KeyOf(w),
                read |-> StatusRead(w)]
    /\ UNCHANGED <<persisted, persister, updater>>
    /\ UNCHANGED <<errors, busy_set, clock, pc, block, now, err_counter, res,
                   result, rb, calls>>

NextEnqueue ==
    \/ Observing /\ resync_iter(1)
    \/ Observing /\ resync_block(1)
    \/ Observing /\ Producer
    \/ Observing /\ Tick
    \/ enqueue_at_claimed(1)

SpecEnqueue == Init /\ [][NextEnqueue]_vars

\* C25: a put_to_resync_at(b, when) made while a worker processes the same
\* key (when, b) is not lost: once that iteration has returned, the queue
\* holds an entry for b, or the iteration read the block status after the
\* enqueue.
C25_EnqueueNotLost ==
    IF Observed
    THEN ~Holding(args.w) => (EntriesOf(args.hash) # {} \/ ~args.read)
    ELSE TRUE

(***************************************************************************)
(* SpecLive: the timed pool with time that never stops.  Past the last     *)
(* clock value of the model the clock stays, and the passage of time is    *)
(* seen by its effect: the sleeps of the parked workers expire.  Fairness: *)
(* the worker manager keeps calling work() and wait_for_work(), an         *)
(* iteration does not fail with a db::Error for ever, time keeps advancing. *)
(***************************************************************************)
\* tokio::time::sleep(next_delay) completes, at a time past the last clock
\* value of the model
AdvanceBeyond ==
    /\ clock >= MaxTime * IDLE_POLL_MS
    /\ \A w \in Workers :
          /\ Parked(worker[w])
          /\ ~worker[w].notified
          /\ worker[w].st = "select" => clock < worker[w].wake_at
    /\ \E w \in Workers : worker[w].st = "select"
    /\ worker' = [w \in Workers |->
                     IF worker[w].st = "select"
                     THEN [worker[w] EXCEPT !.wake_at = clock]
                     ELSE worker[w]]
    /\ UNCHANGED <<persisted, persister, updater, args, queue, errors, clock>>
    /\ UNCHANGED iter_vars

\* a call of work() that does not return a db::Error
work_ok(w) ==
    /\ work(w)
    /\ worker'[w].st # "work" \/ queue' # queue \/ errors' # errors

NextLive ==
    \/ \E w \in Workers : work(w) \/ wait_for_work(w)
    \/ Producer
    \/ Advance
    \/ AdvanceBeyond
    \/ Restart

SpecLive ==
    /\ Init /\ [][NextLive]_vars
    /\ \A w \in Workers :
          /\ WF_vars(wait_for_work(w))
          /\ []<>(worker[w].st # "work") \/ []<><<work_ok(w)>>_vars
    /\ []<><<Advance \/ AdvanceBeyond>>_vars

\* the keys that the producers of the model enqueue
LiveKeys ==
    {QueueKey(i * IDLE_POLL_MS, h) : i \in 0..MaxTime, h \in Hashes}

\* C24: with an active worker, fair scheduling and a clock that keeps
\* advancing, every entry of the queue that is due is eventually claimed and
\* handled, that is removed from the queue (after a resync, or replaced by a
\* later entry), also when it was enqueued while every worker was waiting
\* and the notification was missed.
C24_DueEntryHandled ==
    \A k \in LiveKeys :
        (k \in DOMAIN queue /\ KeyTime(k) <= clock)
            ~> (k \notin DOMAIN queue)

\* the active worker has missed the notification of an enqueue, has slept
\* and has been woken by its timer: the entry is due and still in the queue,
\* and work() is called next
C24_Witness ==
    \E w \in Workers :
        /\ Index(w) < persisted.n_workers
        /\ worker[w].st = "work"
        /\ worker[w].missed # NoTime
        /\ clock > worker[w].missed
        /\ \E k \in DOMAIN queue : KeyTime(k) <= worker[w].missed

=============================================================================
